---- MODULE Spec2Model ----
(***************************************************************************)
(* Model of the mongobnb reservation site: a Starlette application with    *)
(* one middleware (DatabaseMiddleware.dispatch) and three route handlers   *)
(* (homepage, listing, confirmation) over the sample_airbnb database with  *)
(* its two collections listingsAndReviews and bookings.                    *)
(*                                                                         *)
(* A Python dict is a TLA+ function whose domain is the set of keys that   *)
(* are present, so that a missing key is a key outside the DOMAIN.  A      *)
(* request is handled in three steps, the points between which the event   *)
(* loop may run another request: dispatch up to `await call_next`, the     *)
(* routed handler (its body has no await), and the return of dispatch.     *)
(***************************************************************************)
EXTENDS Integers, Sequences, FiniteSets, TLC

\* ---------------------------------------------------------------- bounds
MaxReq == 2            \* number of requests the server receives
MaxDocs == 17          \* largest listingsAndReviews collection considered

\* --------------------------------------------------- program constants
LIMIT == 15            \* limit=15 of every find() of homepage
PRICE_CAP == 100       \* {'price': {'$lt': 100}}
RATING_FLOOR == 90     \* {'review_scores.review_scores_rating': {'$gt': 90}}

SURPRISE_AMENITIES == {"Pets allowed", "Patio or balcony", "Self check-in"}

Req == 1..MaxReq

VARIABLES
    db,          \* client["sample_airbnb"]: the two collections
    nclients,    \* number of MongoClient objects constructed so far
    openClients, \* the MongoClient objects that have not been closed
    pc,          \* per request: "idle", "dispatched", "handled", "done"
    client,      \* per request: the local `client` of dispatch (0: none)
    state_db,    \* per request: request.state.db (0: not set)
    used,        \* per request: the handle its route handler read (0: none)
    route,       \* per request: the routed handler
    query,       \* per request: request.query_params
    path_id,     \* per request: request.path_params['id'] (-1: no such param)
    outcome      \* per request: what the handler produced

vars == <<db, nclients, openClients, pc, client, state_db, used, route, query,
          path_id, outcome>>

\* ------------------------------------------------------ Python helpers

\* str() of a non-negative int
Digit(d) ==
    CASE d = 0 -> "0" [] d = 1 -> "1" [] d = 2 -> "2" [] d = 3 -> "3"
      [] d = 4 -> "4" [] d = 5 -> "5" [] d = 6 -> "6" [] d = 7 -> "7"
      [] d = 8 -> "8" [] d = 9 -> "9"

RECURSIVE Str(_)
Str(n) == IF n < 10 THEN Digit(n) ELSE Str(n \div 10) \o Digit(n % 10)

\* the value None, as returned by find_one when nothing matches
None == [none |-> TRUE]

IsNone(d) == "none" \in DOMAIN d

\* the first n elements of a sequence
Take(s, n) == IF Len(s) <= n THEN s ELSE SubSeq(s, 1, n)

\* ------------------------------------------- the documents of the store

\* The shapes of listing documents considered.  Each has the fields the
\* handlers read; shapes 3, 5 and 6 lack one of them.
FullDoc(i, price, rating, amenities) ==
    [_id |-> i, name |-> "name", summary |-> "summary",
     address |-> [street |-> "street", country |-> "country"],
     price |-> price, cleaning_fee |-> 10 + i, accommodates |-> 2,
     images |-> [picture_url |-> "url"],
     review_scores |-> [review_scores_rating |-> rating],
     amenities |-> amenities]

Without(d, key) == [k \in DOMAIN d \ {key} |-> d[k]]

\* the shapes, by number
DocKinds == 1..6

DocOfKind(i, k) ==
    CASE k = 1 -> FullDoc(i, 50, 95, <<"Wifi", "Pets allowed">>)
      [] k = 2 -> FullDoc(i, 150, 95, <<"Wifi">>)
      [] k = 3 -> Without(FullDoc(i, 50, 95, <<"Self check-in">>), "cleaning_fee")
      [] k = 4 -> FullDoc(i, 99, 90, <<"Patio or balcony", "Wifi">>)
      [] k = 5 -> Without(FullDoc(i, 100, 95, <<>>), "review_scores")
      [] k = 6 -> [FullDoc(i, 50, 95, <<"Pets allowed">>)
                     EXCEPT !.address = [country |-> "country"]]

\* A store of n documents with identifiers 1..n: all of one shape (s = 0)
\* or cycling through the shapes from shape k on (s = 1).
Store(n, k, s) ==
    [i \in 1..n |-> DocOfKind(i, ((k - 1 + s * (i - 1)) % Cardinality(DocKinds)) + 1)]

StoreLens == {0, 2, LIMIT, MaxDocs}

\* the shapes a store starts with: with two documents, shapes 1 and 2, 3 and
\* 4, or 5 and 6 when cycling
StartKinds == {1, 3, 5}

\* ------------------------------------------------- pymongo, as it is used

\* The value at a dotted path of a document: <<v>>, or <<>> when a key on
\* the path is missing.
RECURSIVE Lookup(_, _)
Lookup(d, path) ==
    IF Head(path) \notin DOMAIN d THEN <<>>
    ELSE IF Len(path) = 1 THEN <<d[Head(path)]>>
    ELSE Lookup(d[Head(path)], Tail(path))

\* The query operators homepage uses.
QExists(path) == [op |-> "$exists", path |-> path]
QLt(path, v) == [op |-> "$lt", path |-> path, val |-> v]
QGt(path, v) == [op |-> "$gt", path |-> path, val |-> v]
QIn(path, vs) == [op |-> "$in", path |-> path, vals |-> vs]
QAnd(qs) == [op |-> "$and", args |-> qs]
QEq(path, v) == [op |-> "$eq", path |-> path, val |-> v]

\* Whether document d satisfies query q.  A comparison on a missing field
\* does not match; $in on an array field matches when some element of the
\* array is one of the values.
RECURSIVE Matches(_, _)
Matches(d, q) ==
    CASE q.op = "$exists" -> Lookup(d, q.path) # <<>>
      [] q.op = "$lt" -> LET v == Lookup(d, q.path) IN v # <<>> /\ v[1] < q.val
      [] q.op = "$gt" -> LET v == Lookup(d, q.path) IN v # <<>> /\ v[1] > q.val
      [] q.op = "$eq" -> LET v == Lookup(d, q.path) IN v # <<>> /\ v[1] = q.val
      [] q.op = "$in" -> LET v == Lookup(d, q.path) IN
                         v # <<>> /\ \E i \in 1..Len(v[1]) : v[1][i] \in q.vals
      [] q.op = "$and" -> \A i \in 1..Len(q.args) : Matches(d, q.args[i])

\* collection.find(q, limit=n): the matching documents in store order, at
\* most n of them.
RECURSIVE Filter(_, _)
Filter(coll, q) ==
    IF Len(coll) = 0 THEN <<>>
    ELSE IF Matches(Head(coll), q) THEN <<Head(coll)>> \o Filter(Tail(coll), q)
    ELSE Filter(Tail(coll), q)

Find(coll, q, limit) == Take(Filter(coll, q), limit)

\* collection.find_one(q): the first matching document, or None
FindOne(coll, q) ==
    LET m == Filter(coll, q) IN IF Len(m) = 0 THEN None ELSE Head(m)

\* collection.insert(rec): the record is stored with a fresh _id
InsertedId(coll) == Len(coll) + 1

Insert(coll, rec) ==
    Append(coll, [k \in DOMAIN rec \cup {"_id"} |->
                     IF k = "_id" THEN InsertedId(coll) ELSE rec[k]])

\* ------------------------------------------------------------- routes.py

\* What a handler produces: a TemplateResponse, or an exception that is not
\* caught and leaves the handler.
Rendered(template, payload) ==
    [status |-> "rendered", template |-> template, payload |-> payload]

Raised(exc) == [status |-> "error", exc |-> exc]

NoOutcome == [status |-> "none"]

\* Property(...): the display record built from the nine arguments
Property(id, name, summary, street, price, cleaningFee, accommodates, pictureUrl, amenities) ==
    [id |-> id, name |-> name, summary |-> summary, street |-> street,
     price |-> price, cleaningFee |-> cleaningFee,
     accommodates |-> accommodates, pictureUrl |-> pictureUrl,
     amenities |-> amenities]

\* The keys the nine arguments subscript, in evaluation order.
ProjectedPaths ==
    << <<"_id">>, <<"name">>, <<"summary">>, <<"address", "street">>,
       <<"price">>, <<"cleaning_fee">>, <<"accommodates">>,
       <<"images", "picture_url">>, <<"amenities">> >>

\* The exception the argument list of Property(...) raises for doc, or
\* "ok": subscripting None is a TypeError, a missing key a KeyError.
ProjectFault(doc) ==
    IF IsNone(doc) THEN "TypeError"
    ELSE IF \E i \in 1..Len(ProjectedPaths) : Lookup(doc, ProjectedPaths[i]) = <<>>
         THEN "KeyError"
    ELSE "ok"

\* Property(doc['_id'], ..., str(doc['price']), ...) for a doc that has
\* every key.
Project(doc) ==
    Property(doc["_id"], doc["name"], doc["summary"], doc["address"]["street"],
             Str(doc["price"]), Str(doc["cleaning_fee"]),
             Str(doc["accommodates"]), doc["images"]["picture_url"],
             doc["amenities"])

\* The query of each branch of homepage.
\* QueryUnder100 with an inclusive bound ($lte instead of $lt)
QueryUnder100_Lte ==
    QAnd(<<QExists(<<"cleaning_fee">>), QLt(<<"price">>, PRICE_CAP + 1)>>)

QueryUnder100 ==
    QAnd(<<QExists(<<"cleaning_fee">>), QLt(<<"price">>, PRICE_CAP)>>)

QueryHighlyRated ==
    QAnd(<<QExists(<<"cleaning_fee">>), QLt(<<"price">>, PRICE_CAP),
           QGt(<<"review_scores", "review_scores_rating">>, RATING_FLOOR)>>)

QuerySurprise ==
    QAnd(<<QExists(<<"cleaning_fee">>),
           QIn(<<"amenities">>, SURPRISE_AMENITIES)>>)

QueryDefault == QExists(<<"cleaning_fee">>)

\* The local `data` of homepage after the try statement: the cursor of the
\* branch taken, or unbound when `filter` is present and no branch assigns.
Unbound == [bound |-> FALSE]

Bound(cursor) == [bound |-> TRUE, cursor |-> cursor]

\* HomepageData with a final else branch that assigns an empty cursor
HomepageData_ElseEmpty(listings, q) ==
    IF "filter" \notin DOMAIN q
    THEN Bound(Find(listings, QueryDefault, LIMIT))
    ELSE IF q["filter"] = "under-100"
    THEN Bound(Find(listings, QueryUnder100, LIMIT))
    ELSE IF q["filter"] = "highly-rated"
    THEN Bound(Find(listings, QueryHighlyRated, LIMIT))
    ELSE IF q["filter"] = "surprise"
    THEN Bound(Find(listings, QuerySurprise, LIMIT))
    ELSE Bound(<<>>)

HomepageData(listings, q) ==
    IF "filter" \notin DOMAIN q
    THEN Bound(Find(listings, QueryDefault, LIMIT))
    ELSE IF q["filter"] = "under-100"
    THEN Bound(Find(listings, QueryUnder100, LIMIT))
    ELSE IF q["filter"] = "highly-rated"
    THEN Bound(Find(listings, QueryHighlyRated, LIMIT))
    ELSE IF q["filter"] = "surprise"
    THEN Bound(Find(listings, QuerySurprise, LIMIT))
    ELSE Unbound

\* The loop of homepage over a cursor: the projections in order, or the
\* exception of the first document that raises.
HomepageLoop(cursor) ==
    IF \E i \in 1..Len(cursor) : ProjectFault(cursor[i]) # "ok"
    THEN LET i == CHOOSE j \in 1..Len(cursor) :
                      /\ ProjectFault(cursor[j]) # "ok"
                      /\ \A h \in 1..(j - 1) : ProjectFault(cursor[h]) = "ok"
         IN Raised(ProjectFault(cursor[i]))
    ELSE Rendered("index.html", [i \in 1..Len(cursor) |-> Project(cursor[i])])

HomepageOutcome(listings, q) ==
    LET data == HomepageData(listings, q) IN
    IF data.bound THEN HomepageLoop(data.cursor) ELSE Raised("UnboundLocalError")

\* ListingOutcome that renders the template on None when nothing matches
ListingOutcome_RendersNone(listings, id) ==
    LET doc == FindOne(listings, QEq(<<"_id">>, id)) IN
    IF IsNone(doc) THEN Rendered("listing.html", doc)
    ELSE IF ProjectFault(doc) # "ok" THEN Raised(ProjectFault(doc))
    ELSE Rendered("listing.html", Project(doc))

ListingOutcome(listings, id) ==
    LET doc == FindOne(listings, QEq(<<"_id">>, id)) IN
    IF ProjectFault(doc) # "ok" THEN Raised(ProjectFault(doc))
    ELSE Rendered("listing.html", Project(doc))

\* ConfirmationDb that books only identifiers of existing listings
ConfirmationDb_Checked(d, id) ==
    IF Len(Filter(d.listingsAndReviews, QEq(<<"_id">>, id))) = 0 THEN d
    ELSE [d EXCEPT !.bookings = Insert(d.bookings, [property |-> id])]

\* ConfirmationDb that inserts into the listings collection
ConfirmationDb_IntoListings(d, id) ==
    [d EXCEPT !.listingsAndReviews =
                  Insert(d.listingsAndReviews, [property |-> id])]

\* ConfirmationDb that keeps one booking per identifier (an upsert)
ConfirmationDb_Upsert(d, id) ==
    IF \E i \in 1..Len(d.bookings) : d.bookings[i].property = id THEN d
    ELSE [d EXCEPT !.bookings = Insert(d.bookings, [property |-> id])]

\* request.state.db.bookings.insert({"property": id}) on the database d
ConfirmationDb(d, id) ==
    [d EXCEPT !.bookings = Insert(d.bookings, [property |-> id])]

ConfirmationOutcome(bookings, id) ==
    Rendered("confirmation.html", InsertedId(bookings))

\* --------------------------------------------------------- middleware.py

\* RequestStateDb when dispatch keeps the database on the middleware object,
\* shared by all requests: the handler reads the one opened last
RequestStateDb_Shared(r) == nclients

\* request.state.db as the routed handler of request r reads it
RequestStateDb(r) == state_db[r]

\* ----------------------------------------------------- the state machine

NoParams == [k \in {} |-> ""]

FilterValues == {"under-100", "highly-rated", "surprise", "bogus"}

QueryParams == {NoParams} \cup {[filter |-> f] : f \in FilterValues}

PathIds == 0..2

Init ==
    /\ \E n \in StoreLens, k \in StartKinds, s \in {0, 1} :
          db = [listingsAndReviews |-> Store(n, k, s), bookings |-> <<>>]
    /\ nclients = 0
    /\ openClients = {}
    /\ pc = [r \in Req |-> "idle"]
    /\ client = [r \in Req |-> 0]
    /\ state_db = [r \in Req |-> 0]
    /\ used = [r \in Req |-> 0]
    /\ route = [r \in Req |-> "none"]
    /\ query = [r \in Req |-> NoParams]
    /\ path_id = [r \in Req |-> -1]
    /\ outcome = [r \in Req |-> NoOutcome]

\* dispatch, lines 8-11: a new MongoClient, its database attached to the
\* request, then the await of call_next.  Requests arrive in order.
Dispatch(r) ==
    /\ pc[r] = "idle"
    /\ IF r = 1 THEN TRUE ELSE pc[r - 1] # "idle"
    /\ nclients' = nclients + 1
    /\ openClients' = openClients \cup {nclients + 1}
    /\ client' = [client EXCEPT ![r] = nclients + 1]
    /\ state_db' = [state_db EXCEPT ![r] = nclients + 1]
    /\ pc' = [pc EXCEPT ![r] = "dispatched"]
    /\ UNCHANGED <<db, used, route, query, path_id, outcome>>

\* GET / with query parameters q
Homepage(r) ==
    /\ pc[r] = "dispatched"
    /\ \E q \in QueryParams :
          /\ route' = [route EXCEPT ![r] = "homepage"]
          /\ query' = [query EXCEPT ![r] = q]
          /\ outcome' = [outcome EXCEPT
                           ![r] = HomepageOutcome(db.listingsAndReviews, q)]
    /\ used' = [used EXCEPT ![r] = RequestStateDb(r)]
    /\ pc' = [pc EXCEPT ![r] = "handled"]
    /\ UNCHANGED <<db, nclients, openClients, client, state_db, path_id>>

\* GET /listing/{id}
Listing(r) ==
    /\ pc[r] = "dispatched"
    /\ \E id \in PathIds :
          /\ route' = [route EXCEPT ![r] = "listing"]
          /\ path_id' = [path_id EXCEPT ![r] = id]
          /\ outcome' = [outcome EXCEPT
                           ![r] = ListingOutcome(db.listingsAndReviews, id)]
    /\ used' = [used EXCEPT ![r] = RequestStateDb(r)]
    /\ pc' = [pc EXCEPT ![r] = "handled"]
    /\ UNCHANGED <<db, nclients, openClients, client, state_db, query>>

\* GET /confirmation/{id}
Confirmation(r) ==
    /\ pc[r] = "dispatched"
    /\ \E id \in PathIds :
          /\ route' = [route EXCEPT ![r] = "confirmation"]
          /\ path_id' = [path_id EXCEPT ![r] = id]
          /\ db' = ConfirmationDb(db, id)
          /\ outcome' = [outcome EXCEPT
                           ![r] = ConfirmationOutcome(db.bookings, id)]
    /\ used' = [used EXCEPT ![r] = RequestStateDb(r)]
    /\ pc' = [pc EXCEPT ![r] = "handled"]
    /\ UNCHANGED <<nclients, openClients, client, state_db, query>>

\* dispatch, line 12: call_next has returned (or raised) and dispatch ends;
\* nothing closes the client.
Respond(r) ==
    /\ pc[r] = "handled"
    /\ pc' = [pc EXCEPT ![r] = "done"]
    /\ UNCHANGED <<db, nclients, openClients, client, state_db, used, route,
                   query, path_id, outcome>>

Next ==
    \E r \in Req :
        \/ Dispatch(r)
        \/ Homepage(r)
        \/ Listing(r)
        \/ Confirmation(r)
        \/ Respond(r)

Spec == Init /\ [][Next]_vars

\* ======================================================== the properties

Listings == db.listingsAndReviews

Bookings == db.bookings

\* request r has been through its route handler
Handled(r) == pc[r] \in {"handled", "done"}

KnownSelectors == {"under-100", "highly-rated", "surprise"}

\* the selector of a request: the value of `filter`, or "absent"
SelectorOf(q) == IF "filter" \in DOMAIN q THEN q["filter"] ELSE "absent"

HasFee(d) == "cleaning_fee" \in DOMAIN d

AmenitySet(d) == {d.amenities[i] : i \in 1..Len(d.amenities)}

\* The predicate of each selector, as the table of the Query Builder
\* states it.
TablePredicate(sel, d) ==
    CASE sel = "absent" -> HasFee(d)
      [] sel = "under-100" ->
            HasFee(d) /\ "price" \in DOMAIN d /\ d.price < 100
      [] sel = "highly-rated" ->
            /\ HasFee(d) /\ "price" \in DOMAIN d /\ d.price < 100
            /\ "review_scores" \in DOMAIN d
            /\ "review_scores_rating" \in DOMAIN d.review_scores
            /\ d.review_scores.review_scores_rating > 90
      [] sel = "surprise" ->
            /\ HasFee(d) /\ "amenities" \in DOMAIN d
            /\ AmenitySet(d) \cap {"Pets allowed", "Patio or balcony",
                                   "Self check-in"} # {}

\* d has every field the projection reads, cleaning_fee aside
HasOtherFields(d) ==
    /\ {"_id", "name", "summary", "address", "price", "accommodates",
        "images", "amenities"} \subseteq DOMAIN d
    /\ "street" \in DOMAIN d.address
    /\ "picture_url" \in DOMAIN d.images

\* positions of the documents that satisfy the selector's predicate
MatchIdx(sel) == {i \in 1..Len(Listings) : TablePredicate(sel, Listings[i])}

\* how many matching documents precede position i
Rank(sel, i) == Cardinality({j \in MatchIdx(sel) : j < i})

\* positions of the first 15 matching documents
FirstIdx(sel) == {i \in MatchIdx(sel) : Rank(sel, i) < 15}

IsIndexRequest(r, sel) ==
    Handled(r) /\ route[r] = "homepage" /\ SelectorOf(query[r]) = sel

Unrecognized(r) ==
    /\ Handled(r) /\ route[r] = "homepage"
    /\ SelectorOf(query[r]) \notin KnownSelectors \cup {"absent"}

\* C2: an index request whose `filter` is present but unrecognized falls
\* back to the default predicate and produces the same result as a request
\* without `filter`.
C2_UnrecognizedFallsBack ==
    \A r \in Req :
        Unrecognized(r) =>
            /\ outcome[r].status = "rendered"
            /\ outcome[r] = HomepageOutcome(Listings, NoParams)

HasDoc(id) == \E i \in 1..Len(Listings) : Listings[i]["_id"] = id

DocOf(id) == Listings[CHOOSE i \in 1..Len(Listings) : Listings[i]["_id"] = id]

IsDetailRequest(r) == Handled(r) /\ route[r] = "listing"

\* C4: the detail page of a document that has every other field but no
\* cleaning_fee is rendered, with a placeholder text as cleaningFee.
C4_MissingFeeIsPlaceholder ==
    \A r \in Req :
        ( /\ IsDetailRequest(r)
          /\ HasDoc(path_id[r])
          /\ HasOtherFields(DocOf(path_id[r]))
          /\ ~HasFee(DocOf(path_id[r])) ) =>
            /\ outcome[r].status = "rendered"
            /\ outcome[r].payload.cleaningFee = "None"

\* C5: a detail request for an identifier that matches no document never
\* renders: it ends in an error, and that error differs from the outcome of
\* every detail request for an existing identifier.
C5_MissingListingIsError ==
    \A r \in Req :
        (IsDetailRequest(r) /\ ~HasDoc(path_id[r])) =>
            /\ outcome[r].status = "error"
            /\ outcome[r].exc = "TypeError"
            /\ \A r2 \in Req :
                  (IsDetailRequest(r2) /\ HasDoc(path_id[r2])) =>
                      \/ outcome[r2].status = "rendered"
                      \/ outcome[r2].exc # outcome[r].exc

\* a miss on a non-empty store, next to a detail request that found its
\* document
C5_Witness ==
    \E r, r2 \in Req :
        /\ IsDetailRequest(r) /\ ~HasDoc(path_id[r])
        /\ Len(Listings) > 0
        /\ IsDetailRequest(r2) /\ HasDoc(path_id[r2])

IsConfirmationRequest(r) == Handled(r) /\ route[r] = "confirmation"

\* C6: after a confirmation request for x, whether or not x identifies a
\* listing, bookings holds a record whose property is x, in every later
\* state.
C6_BookingPersisted ==
    \A r \in Req :
        IsConfirmationRequest(r) =>
            \E i \in 1..Len(Bookings) : Bookings[i].property = path_id[r]

\* a finished confirmation for an identifier of no listing, followed by
\* another request
C6_Witness ==
    \E r, r2 \in Req :
        /\ r # r2
        /\ IsConfirmationRequest(r) /\ pc[r] = "done"
        /\ ~HasDoc(path_id[r])
        /\ client[r2] > client[r] /\ Handled(r2)
        /\ \E i \in 1..Len(Bookings) : Bookings[i].property = path_id[r]

\* C7: every request gets a handle attached before its handler runs, and
\* the handle is released once the response is produced.
C7_HandleReleased ==
    \A r \in Req :
        /\ pc[r] # "idle" => (client[r] # 0 /\ state_db[r] = client[r])
        /\ pc[r] = "done" => client[r] \notin openClients

\* C8: whatever the interleaving, the handle attached to a request is the
\* one dispatch opened for it, no other request holds it, and the handler
\* of the request used that handle.
C8_OwnHandle ==
    \A r \in Req :
        pc[r] # "idle" =>
            /\ client[r] # 0
            /\ state_db[r] = client[r]
            /\ \A r2 \in Req \ {r} :
                  pc[r2] # "idle" => state_db[r2] # state_db[r]
            /\ Handled(r) => used[r] = client[r]

\* a handler that ran while another request was in flight
C8_Witness ==
    \E r, r2 \in Req :
        /\ r # r2
        /\ pc[r] = "handled" /\ pc[r2] = "dispatched"
        /\ used[r] = client[r]

\* a step of the routed handler of some request
HandlerStep(name) ==
    \E r \in Req :
        pc[r] = "dispatched" /\ pc'[r] = "handled" /\ route'[r] = name

\* C9: no step changes listingsAndReviews, and only a confirmation step
\* changes bookings.
C9_ListingsReadOnly ==
    [][ /\ db'.listingsAndReviews = db.listingsAndReviews
        /\ (HandlerStep("homepage") \/ HandlerStep("listing")) =>
              db'.bookings = db.bookings
        /\ db'.bookings # db.bookings => HandlerStep("confirmation") ]_vars

\* a confirmation and a failed index or detail request, both handled
C9_Witness ==
    \E r, r2 \in Req :
        /\ IsConfirmationRequest(r)
        /\ Handled(r2) /\ route[r2] \in {"homepage", "listing"}
        /\ outcome[r2].status = "error"
        /\ Len(Listings) > 0

BookingsFor(x) == {i \in 1..Len(Bookings) : Bookings[i].property = x}

ConfirmationsFor(x) == {r \in Req : IsConfirmationRequest(r) /\ path_id[r] = x}

\* C10: bookings holds one record per confirmation request handled, so n
\* requests for the same identifier leave n records, with distinct _id;
\* a step adds at most one record and leaves the existing records as they
\* are.
C10_BookingsOnlyGrow ==
    /\ [](/\ \A x \in PathIds :
                Cardinality(BookingsFor(x)) = Cardinality(ConfirmationsFor(x))
          /\ \A i, j \in 1..Len(Bookings) :
                i # j => Bookings[i]["_id"] # Bookings[j]["_id"])
    /\ [][ /\ Len(db'.bookings) \in {Len(db.bookings), Len(db.bookings) + 1}
           /\ \A i \in 1..Len(db.bookings) : db'.bookings[i] = db.bookings[i]
           /\ HandlerStep("confirmation") =>
                 Len(db'.bookings) = Len(db.bookings) + 1 ]_vars

\* two confirmations for the same identifier
C10_Witness ==
    \E x \in PathIds :
        /\ Cardinality(ConfirmationsFor(x)) = 2
        /\ Cardinality(BookingsFor(x)) = 2

====
